---- MODULE Spec2Model ----
(***************************************************************************)
(* fizz::KeyScheduler (fizz/protocol/KeyScheduler.cpp): the TLS 1.3 key    *)
(* schedule as a state machine over the chain slot secret_ and the         *)
(* application traffic slot appTrafficSecret_.                             *)
(*                                                                         *)
(* Byte strings are terms: a literal buffer is <<"bytes", seq>>, and the   *)
(* results of the injected KeyDerivation primitive (deriver_) are the      *)
(* uninterpreted terms <<"hkdfExtract", ...>> and <<"expandLabel", ...>>.  *)
(* An Optional is a sequence of length 0 (none) or 1.                      *)
(***************************************************************************)
EXTENDS Integers, Sequences, FiniteSets, TLC

\* ---------------------------------------------------------------- bounds
\* deriver_->hashLength(): digest length of the negotiated hash, in bytes
hashLength == 2
\* key updates explored per direction
MaxGen == 2

\* uint32_t, the type of the generation counters, as two 16-bit limbs
\* (2^32 itself is beyond the integers TLC evaluates)
W16 == 65536

u32(n) == [hi |-> (n \div W16) % W16, lo |-> n % W16]

\* a counter that saturates at 2^32 - 1 instead of wrapping
inc32_saturating(g) ==
    IF g.lo + 1 < W16
    THEN [g EXCEPT !.lo = g.lo + 1]
    ELSE IF g.hi + 1 < W16 THEN [hi |-> g.hi + 1, lo |-> 0] ELSE g

\* ++ on a uint32_t: wraps from 2^32 - 1 to 0
inc32(g) ==
    IF g.lo + 1 < W16
    THEN [g EXCEPT !.lo = g.lo + 1]
    ELSE [hi |-> (g.hi + 1) % W16, lo |-> 0]

\* g < n, for a small n
Below(g, n) == g.hi = 0 /\ g.lo < n

\* the generations explored: the first MaxGen key updates of a pair, and the
\* last two before the counter wraps
Explored(g) == Below(g, MaxGen) \/ (g.hi = W16 - 1 /\ g.lo >= W16 - 2)

\* a number of calls, which is not bounded by 2^32: hi * 2^16 + lo
count0 == [hi |-> 0, lo |-> 0]

countInc(n) ==
    IF n.lo + 1 < W16
    THEN [n EXCEPT !.lo = n.lo + 1]
    ELSE [hi |-> n.hi + 1, lo |-> 0]

\* ---------------------------------------------------------------- labels
kTrafficKey == "key"
kTrafficIv == "iv"
kExternalPskBinder == "ext binder"
kResumptionPskBinder == "res binder"
kClientEarlyTraffic == "c e traffic"
kEarlyExporter == "e exp master"
kClientHandshakeTraffic == "c hs traffic"
kServerHandshakeTraffic == "s hs traffic"
kClientAppTraffic == "c ap traffic"
kServerAppTraffic == "s ap traffic"
kExporterMaster == "exp master"
kResumptionMaster == "res master"
kDerivedSecret == "derived"
kTrafficKeyUpdate == "traffic upd"
kResumption == "resumption"

\* ---------------------------------------------------------------- bytes
Bytes(v) == <<"bytes", v>>

\* std::vector<uint8_t>(deriver_->hashLength(), 0)
zeros == Bytes([i \in 1..hashLength |-> 0])

\* folly::IOBuf::create(0): the empty context
emptyContext == Bytes(<<>>)

\* ------------------------------------------- the KeyDerivation primitive
hkdfExtract(salt, ikm) == <<"hkdfExtract", salt, ikm>>

expandLabel(secret, label, context, length) ==
    <<"expandLabel", secret, label, context, length>>

deriveSecret(secret, label, context) ==
    expandLabel(secret, label, context, hashLength)

blankHash == <<"blankHash">>

\* ---------------------------------------------------------------- inputs
PskValues == {zeros, Bytes(<<7>>)}
EcdheValues == {zeros, Bytes(<<9>>)}
Transcripts == {Bytes(<<1>>), Bytes(<<2>>)}

\* ---------------------------------------------------------------- state
\* secret_            the chain slot: folly::Optional of the variant
\* appTrafficSecret_  the application traffic slot: folly::Optional
\* cleared            history: a clearMasterSecret has succeeded
\* op, args, outcome, retval   the last call and how it ended
\* clientUpdates, serverUpdates   history: the successful clientKeyUpdate /
\*                    serverKeyUpdate calls since the last successful
\*                    deriveAppTrafficSecrets
VARIABLES secret_, appTrafficSecret_, cleared, op, args, outcome, retval,
          clientUpdates, serverUpdates

vars == <<secret_, appTrafficSecret_, cleared, op, args, outcome, retval,
          clientUpdates, serverUpdates>>

\* the alternatives of the boost::variant held by secret_
EarlySecret(s) == [which |-> "EarlySecret", secret |-> s]
HandshakeSecret(s) == [which |-> "HandshakeSecret", secret |-> s]
MasterSecret(s) == [which |-> "MasterSecret", secret |-> s]

\* a value-initialised AppTrafficSecret
AppTrafficSecret ==
    [client |-> Bytes(<<>>), clientGeneration |-> u32(0),
     server |-> Bytes(<<>>), serverGeneration |-> u32(0)]

Init ==
    /\ secret_ = <<>>
    /\ appTrafficSecret_ = <<>>
    /\ cleared = FALSE
    /\ op = "KeyScheduler"
    /\ args = <<>>
    /\ outcome = "ok"
    /\ retval = <<>>
    /\ clientUpdates = count0
    /\ serverUpdates = count0

\* the process is running: LOG(FATAL) aborts it
Running == outcome # "FATAL"

\* how a call ends: its outcome ("ok", or the exception thrown, or "FATAL")
\* and the value it returns
Return(o, a, out, rv) ==
    /\ op' = o
    /\ args' = a
    /\ outcome' = out
    /\ retval' = rv

\* boost::get<T>(*secret_) succeeds
Holds(which) == secret_ # <<>> /\ secret_[1].which = which

\* what boost::get<T>(*secret_) throws otherwise: folly::Optional's checked
\* operator* on an empty slot, boost::bad_get on another alternative
GetFailure == IF secret_ = <<>> THEN "OptionalEmptyException" ELSE "bad_get"

\* ------------------------------------------------------------ operations
\* deriveEarlySecret without the guard of lines 33-35: overwrites silently
deriveEarlySecret_overwrite(psk) ==
    /\ Running
    /\ secret_' = <<EarlySecret(hkdfExtract(zeros, psk))>>
    /\ Return("deriveEarlySecret", <<psk>>, "ok", <<>>)
    /\ UNCHANGED <<appTrafficSecret_, cleared, clientUpdates, serverUpdates>>

deriveEarlySecret(psk) ==
    /\ Running
    /\ IF secret_ # <<>>
       THEN /\ Return("deriveEarlySecret", <<psk>>, "runtime_error", <<>>)
            /\ UNCHANGED secret_
       ELSE /\ secret_' = <<EarlySecret(hkdfExtract(zeros, psk))>>
            /\ Return("deriveEarlySecret", <<psk>>, "ok", <<>>)
    /\ UNCHANGED <<appTrafficSecret_, cleared, clientUpdates, serverUpdates>>

\* a no-argument overload whose ikm is an empty buffer instead of zeros
deriveHandshakeSecret_emptyIkm ==
    /\ Running
    /\ IF Holds("EarlySecret")
       THEN /\ secret_' = <<HandshakeSecret(hkdfExtract(
                   deriveSecret(secret_[1].secret, kDerivedSecret, blankHash),
                   emptyContext))>>
            /\ Return("deriveHandshakeSecret", <<>>, "ok", <<>>)
       ELSE /\ Return("deriveHandshakeSecret", <<>>, GetFailure, <<>>)
            /\ UNCHANGED secret_
    /\ UNCHANGED <<appTrafficSecret_, cleared, clientUpdates, serverUpdates>>

\* a no-argument overload that bootstraps an all-zero early secret on an empty
\* slot, as the ecdhe overload does
deriveHandshakeSecret_bootstrap ==
    /\ Running
    /\ LET boot == IF secret_ = <<>>
                   THEN <<EarlySecret(hkdfExtract(zeros, zeros))>>
                   ELSE secret_
       IN IF boot[1].which = "EarlySecret"
          THEN /\ secret_' = <<HandshakeSecret(hkdfExtract(
                      deriveSecret(boot[1].secret, kDerivedSecret, blankHash),
                      zeros))>>
               /\ Return("deriveHandshakeSecret", <<>>, "ok", <<>>)
          ELSE /\ secret_' = boot
               /\ Return("deriveHandshakeSecret", <<>>, "bad_get", <<>>)
    /\ UNCHANGED <<appTrafficSecret_, cleared, clientUpdates, serverUpdates>>

deriveHandshakeSecret ==
    /\ Running
    /\ IF Holds("EarlySecret")
       THEN /\ secret_' = <<HandshakeSecret(hkdfExtract(
                   deriveSecret(secret_[1].secret, kDerivedSecret, blankHash),
                   zeros))>>
            /\ Return("deriveHandshakeSecret", <<>>, "ok", <<>>)
       ELSE /\ Return("deriveHandshakeSecret", <<>>, GetFailure, <<>>)
            /\ UNCHANGED secret_
    /\ UNCHANGED <<appTrafficSecret_, cleared, clientUpdates, serverUpdates>>

\* deriveHandshakeSecret(ecdhe) with an unchecked cast of the variant
deriveHandshakeSecret_ecdhe_unchecked(ecdhe) ==
    /\ Running
    /\ LET boot == IF secret_ = <<>>
                   THEN <<EarlySecret(hkdfExtract(zeros, zeros))>>
                   ELSE secret_
       IN /\ secret_' = <<HandshakeSecret(hkdfExtract(
                 deriveSecret(boot[1].secret, kDerivedSecret, blankHash),
                 ecdhe))>>
          /\ Return("deriveHandshakeSecret_ecdhe", <<ecdhe>>, "ok", <<>>)
    /\ UNCHANGED <<appTrafficSecret_, cleared, clientUpdates, serverUpdates>>

deriveHandshakeSecret_ecdhe(ecdhe) ==
    /\ Running
    /\ LET boot == IF secret_ = <<>>
                   THEN <<EarlySecret(hkdfExtract(zeros, zeros))>>
                   ELSE secret_
       IN IF boot[1].which = "EarlySecret"
          THEN /\ secret_' = <<HandshakeSecret(hkdfExtract(
                      deriveSecret(boot[1].secret, kDerivedSecret, blankHash),
                      ecdhe))>>
               /\ Return("deriveHandshakeSecret_ecdhe", <<ecdhe>>, "ok", <<>>)
          ELSE /\ secret_' = boot
               /\ Return("deriveHandshakeSecret_ecdhe", <<ecdhe>>,
                         "bad_get", <<>>)
    /\ UNCHANGED <<appTrafficSecret_, cleared, clientUpdates, serverUpdates>>

\* deriveMasterSecret without the "derived" step: the handshake secret
\* itself is the salt
deriveMasterSecret_skipDerived ==
    /\ Running
    /\ IF Holds("HandshakeSecret")
       THEN /\ secret_' = <<MasterSecret(hkdfExtract(secret_[1].secret,
                                                     zeros))>>
            /\ Return("deriveMasterSecret", <<>>, "ok", <<>>)
       ELSE /\ Return("deriveMasterSecret", <<>>, GetFailure, <<>>)
            /\ UNCHANGED secret_
    /\ UNCHANGED <<appTrafficSecret_, cleared, clientUpdates, serverUpdates>>

\* deriveMasterSecret that also accepts an EarlySecret
deriveMasterSecret_fromEarly ==
    /\ Running
    /\ IF Holds("HandshakeSecret") \/ Holds("EarlySecret")
       THEN /\ secret_' = <<MasterSecret(hkdfExtract(
                   deriveSecret(secret_[1].secret, kDerivedSecret, blankHash),
                   zeros))>>
            /\ Return("deriveMasterSecret", <<>>, "ok", <<>>)
       ELSE /\ Return("deriveMasterSecret", <<>>, GetFailure, <<>>)
            /\ UNCHANGED secret_
    /\ UNCHANGED <<appTrafficSecret_, cleared, clientUpdates, serverUpdates>>

deriveMasterSecret ==
    /\ Running
    /\ IF Holds("HandshakeSecret")
       THEN /\ secret_' = <<MasterSecret(hkdfExtract(
                   deriveSecret(secret_[1].secret, kDerivedSecret, blankHash),
                   zeros))>>
            /\ Return("deriveMasterSecret", <<>>, "ok", <<>>)
       ELSE /\ Return("deriveMasterSecret", <<>>, GetFailure, <<>>)
            /\ UNCHANGED secret_
    /\ UNCHANGED <<appTrafficSecret_, cleared, clientUpdates, serverUpdates>>

\* deriveAppTrafficSecrets that stores a value-initialised pair before the
\* checked access to the master secret
deriveAppTrafficSecrets_emplaceFirst(transcript) ==
    /\ Running
    /\ IF Holds("MasterSecret")
       THEN /\ appTrafficSecret_' =
                  <<[AppTrafficSecret EXCEPT
                      !.client = deriveSecret(secret_[1].secret,
                                              kClientAppTraffic, transcript),
                      !.server = deriveSecret(secret_[1].secret,
                                              kServerAppTraffic, transcript)]>>
            /\ clientUpdates' = count0
            /\ serverUpdates' = count0
            /\ Return("deriveAppTrafficSecrets", <<transcript>>, "ok", <<>>)
       ELSE /\ Return("deriveAppTrafficSecrets", <<transcript>>,
                      GetFailure, <<>>)
            /\ appTrafficSecret_' = <<AppTrafficSecret>>
            /\ UNCHANGED <<clientUpdates, serverUpdates>>
    /\ UNCHANGED <<secret_, cleared>>

\* deriveAppTrafficSecrets with kClientAppTraffic for both directions
deriveAppTrafficSecrets_sameLabel(transcript) ==
    /\ Running
    /\ IF Holds("MasterSecret")
       THEN /\ appTrafficSecret_' =
                  <<[AppTrafficSecret EXCEPT
                      !.client = deriveSecret(secret_[1].secret,
                                              kClientAppTraffic, transcript),
                      !.server = deriveSecret(secret_[1].secret,
                                              kClientAppTraffic, transcript)]>>
            /\ clientUpdates' = count0
            /\ serverUpdates' = count0
            /\ Return("deriveAppTrafficSecrets", <<transcript>>, "ok", <<>>)
       ELSE /\ Return("deriveAppTrafficSecrets", <<transcript>>,
                      GetFailure, <<>>)
            /\ UNCHANGED <<appTrafficSecret_, clientUpdates, serverUpdates>>
    /\ UNCHANGED <<secret_, cleared>>

deriveAppTrafficSecrets(transcript) ==
    /\ Running
    /\ IF Holds("MasterSecret")
       THEN /\ appTrafficSecret_' =
                  <<[AppTrafficSecret EXCEPT
                      !.client = deriveSecret(secret_[1].secret,
                                              kClientAppTraffic, transcript),
                      !.server = deriveSecret(secret_[1].secret,
                                              kServerAppTraffic, transcript)]>>
            /\ clientUpdates' = count0
            /\ serverUpdates' = count0
            /\ Return("deriveAppTrafficSecrets", <<transcript>>, "ok", <<>>)
       ELSE /\ Return("deriveAppTrafficSecrets", <<transcript>>,
                      GetFailure, <<>>)
            /\ UNCHANGED <<appTrafficSecret_, clientUpdates, serverUpdates>>
    /\ UNCHANGED <<secret_, cleared>>

\* clearMasterSecret that resets the application traffic slot as well
clearMasterSecret_bothSlots ==
    /\ Running
    /\ IF Holds("MasterSecret")
       THEN /\ secret_' = <<>>
            /\ appTrafficSecret_' = <<>>
            /\ cleared' = TRUE
            /\ Return("clearMasterSecret", <<>>, "ok", <<>>)
       ELSE /\ Return("clearMasterSecret", <<>>, GetFailure, <<>>)
            /\ UNCHANGED <<secret_, appTrafficSecret_, cleared>>
    /\ UNCHANGED <<clientUpdates, serverUpdates>>

\* clearMasterSecret that erases the slot before the check
clearMasterSecret_eraseFirst ==
    /\ Running
    /\ secret_' = <<>>
    /\ IF Holds("MasterSecret")
       THEN /\ cleared' = TRUE
            /\ Return("clearMasterSecret", <<>>, "ok", <<>>)
       ELSE /\ Return("clearMasterSecret", <<>>, GetFailure, <<>>)
            /\ UNCHANGED cleared
    /\ UNCHANGED <<appTrafficSecret_, clientUpdates, serverUpdates>>

\* clearMasterSecret without the boost::get check of line 86
clearMasterSecret_unchecked ==
    /\ Running
    /\ secret_' = <<>>
    /\ cleared' = TRUE
    /\ Return("clearMasterSecret", <<>>, "ok", <<>>)
    /\ UNCHANGED <<appTrafficSecret_, clientUpdates, serverUpdates>>

clearMasterSecret ==
    /\ Running
    /\ IF Holds("MasterSecret")
       THEN /\ secret_' = <<>>
            /\ cleared' = TRUE
            /\ Return("clearMasterSecret", <<>>, "ok", <<>>)
       ELSE /\ Return("clearMasterSecret", <<>>, GetFailure, <<>>)
            /\ UNCHANGED <<secret_, cleared>>
    /\ UNCHANGED <<appTrafficSecret_, clientUpdates, serverUpdates>>

\* clientKeyUpdate with an unchecked access that value-initialises the pair
clientKeyUpdate_createsPair ==
    /\ Running
    /\ LET pair == IF appTrafficSecret_ = <<>>
                   THEN AppTrafficSecret ELSE appTrafficSecret_[1]
       IN /\ Explored(pair.clientGeneration)
          /\ LET gen == inc32(pair.clientGeneration)
             IN /\ appTrafficSecret_' =
                      <<[pair EXCEPT
                          !.client = expandLabel(@, kTrafficKeyUpdate,
                                                 emptyContext, hashLength),
                          !.clientGeneration = gen]>>
                /\ Return("clientKeyUpdate", <<>>, "ok", <<gen>>)
                /\ clientUpdates' = countInc(clientUpdates)
                /\ UNCHANGED serverUpdates
    /\ UNCHANGED <<secret_, cleared>>

\* clientKeyUpdate that counts the generation but keeps the stored secret
clientKeyUpdate_noRatchet ==
    /\ Running
    /\ IF appTrafficSecret_ = <<>>
       THEN /\ Return("clientKeyUpdate", <<>>, "OptionalEmptyException", <<>>)
            /\ UNCHANGED <<appTrafficSecret_, clientUpdates, serverUpdates>>
       ELSE /\ Explored(appTrafficSecret_[1].clientGeneration)
            /\ LET gen == inc32(appTrafficSecret_[1].clientGeneration)
               IN /\ appTrafficSecret_' =
                        <<[appTrafficSecret_[1] EXCEPT
                            !.clientGeneration = gen]>>
                  /\ Return("clientKeyUpdate", <<>>, "ok", <<gen>>)
                  /\ clientUpdates' = countInc(clientUpdates)
                  /\ UNCHANGED serverUpdates
    /\ UNCHANGED <<secret_, cleared>>

\* clientKeyUpdate with a post-increment: returns the generation before it
clientKeyUpdate_postIncrement ==
    /\ Running
    /\ IF appTrafficSecret_ = <<>>
       THEN /\ Return("clientKeyUpdate", <<>>, "OptionalEmptyException", <<>>)
            /\ UNCHANGED <<appTrafficSecret_, clientUpdates, serverUpdates>>
       ELSE /\ Explored(appTrafficSecret_[1].clientGeneration)
            /\ LET gen == inc32(appTrafficSecret_[1].clientGeneration)
               IN /\ appTrafficSecret_' =
                        <<[appTrafficSecret_[1] EXCEPT
                            !.client = expandLabel(@, kTrafficKeyUpdate,
                                                   emptyContext, hashLength),
                            !.clientGeneration = gen]>>
                  /\ Return("clientKeyUpdate", <<>>, "ok",
                            <<appTrafficSecret_[1].clientGeneration>>)
                  /\ clientUpdates' = countInc(clientUpdates)
                  /\ UNCHANGED serverUpdates
    /\ UNCHANGED <<secret_, cleared>>

clientKeyUpdate ==
    /\ Running
    /\ IF appTrafficSecret_ = <<>>
       THEN /\ Return("clientKeyUpdate", <<>>, "OptionalEmptyException", <<>>)
            /\ UNCHANGED <<appTrafficSecret_, clientUpdates, serverUpdates>>
       ELSE /\ Explored(appTrafficSecret_[1].clientGeneration)
            /\ LET gen == inc32(appTrafficSecret_[1].clientGeneration)
               IN /\ appTrafficSecret_' =
                        <<[appTrafficSecret_[1] EXCEPT
                            !.client = expandLabel(@, kTrafficKeyUpdate,
                                                   emptyContext, hashLength),
                            !.clientGeneration = gen]>>
                  /\ Return("clientKeyUpdate", <<>>, "ok", <<gen>>)
                  /\ clientUpdates' = countInc(clientUpdates)
                  /\ UNCHANGED serverUpdates
    /\ UNCHANGED <<secret_, cleared>>

\* a serverKeyUpdate that ratchets both stored secrets
serverKeyUpdate_bothSecrets ==
    /\ Running
    /\ IF appTrafficSecret_ = <<>>
       THEN /\ Return("serverKeyUpdate", <<>>, "OptionalEmptyException", <<>>)
            /\ UNCHANGED <<appTrafficSecret_, clientUpdates, serverUpdates>>
       ELSE /\ Explored(appTrafficSecret_[1].serverGeneration)
            /\ LET gen == inc32(appTrafficSecret_[1].serverGeneration)
               IN /\ appTrafficSecret_' =
                        <<[appTrafficSecret_[1] EXCEPT
                            !.client = expandLabel(@, kTrafficKeyUpdate,
                                                   emptyContext, hashLength),
                            !.server = expandLabel(@, kTrafficKeyUpdate,
                                                   emptyContext, hashLength),
                            !.serverGeneration = gen]>>
                  /\ Return("serverKeyUpdate", <<>>, "ok", <<gen>>)
                  /\ serverUpdates' = countInc(serverUpdates)
                  /\ UNCHANGED clientUpdates
    /\ UNCHANGED <<secret_, cleared>>

\* a serverKeyUpdate that increments clientGeneration
serverKeyUpdate_clientCounter ==
    /\ Running
    /\ IF appTrafficSecret_ = <<>>
       THEN /\ Return("serverKeyUpdate", <<>>, "OptionalEmptyException", <<>>)
            /\ UNCHANGED <<appTrafficSecret_, clientUpdates, serverUpdates>>
       ELSE /\ Explored(appTrafficSecret_[1].clientGeneration)
            /\ LET gen == inc32(appTrafficSecret_[1].clientGeneration)
               IN /\ appTrafficSecret_' =
                        <<[appTrafficSecret_[1] EXCEPT
                            !.server = expandLabel(@, kTrafficKeyUpdate,
                                                   emptyContext, hashLength),
                            !.clientGeneration = gen]>>
                  /\ Return("serverKeyUpdate", <<>>, "ok", <<gen>>)
                  /\ serverUpdates' = countInc(serverUpdates)
                  /\ UNCHANGED clientUpdates
    /\ UNCHANGED <<secret_, cleared>>

serverKeyUpdate ==
    /\ Running
    /\ IF appTrafficSecret_ = <<>>
       THEN /\ Return("serverKeyUpdate", <<>>, "OptionalEmptyException", <<>>)
            /\ UNCHANGED <<appTrafficSecret_, clientUpdates, serverUpdates>>
       ELSE /\ Explored(appTrafficSecret_[1].serverGeneration)
            /\ LET gen == inc32(appTrafficSecret_[1].serverGeneration)
               IN /\ appTrafficSecret_' =
                        <<[appTrafficSecret_[1] EXCEPT
                            !.server = expandLabel(@, kTrafficKeyUpdate,
                                                   emptyContext, hashLength),
                            !.serverGeneration = gen]>>
                  /\ Return("serverKeyUpdate", <<>>, "ok", <<gen>>)
                  /\ serverUpdates' = countInc(serverUpdates)
                  /\ UNCHANGED clientUpdates
    /\ UNCHANGED <<secret_, cleared>>

\* ------------------------------------------------------------- getSecret
\* the selector values; "Unknown" is a value outside the enumerators
EarlySecrets == {"ExternalPskBinder", "ResumptionPskBinder",
                 "ClientEarlyTraffic", "EarlyExporter", "Unknown"}
HandshakeSecrets == {"ClientHandshakeTraffic", "ServerHandshakeTraffic",
                     "Unknown"}
MasterSecrets == {"ExporterMaster", "ResumptionMaster", "Unknown"}
AppTrafficSecrets == {"ClientAppTraffic", "ServerAppTraffic", "Unknown"}

\* the switch of each getSecret overload
EarlyLabel(s) ==
    CASE s = "ExternalPskBinder" -> kExternalPskBinder
      [] s = "ResumptionPskBinder" -> kResumptionPskBinder
      [] s = "ClientEarlyTraffic" -> kClientEarlyTraffic
      [] s = "EarlyExporter" -> kEarlyExporter
      [] OTHER -> "FATAL"

HandshakeLabel(s) ==
    CASE s = "ClientHandshakeTraffic" -> kClientHandshakeTraffic
      [] s = "ServerHandshakeTraffic" -> kServerHandshakeTraffic
      [] OTHER -> "FATAL"

MasterLabel(s) ==
    CASE s = "ExporterMaster" -> kExporterMaster
      [] s = "ResumptionMaster" -> kResumptionMaster
      [] OTHER -> "FATAL"

\* the body shared by the three phase-scoped overloads: the switch, then
\* boost::get<T>(*secret_), then deriveSecret
\* a phase-scoped getSecret with an unchecked cast: derives from whatever
\* secret the slot holds
PhaseSecret_unchecked(name, which, label, s, transcript) ==
    /\ IF label = "FATAL"
       THEN Return(name, <<s, transcript>>, "FATAL", <<>>)
       ELSE IF secret_ # <<>>
            THEN Return(name, <<s, transcript>>, "ok",
                        <<deriveSecret(secret_[1].secret, label, transcript)>>)
            ELSE Return(name, <<s, transcript>>, GetFailure, <<>>)
    /\ UNCHANGED <<secret_, appTrafficSecret_, cleared,
                   clientUpdates, serverUpdates>>

PhaseSecret(name, which, label, s, transcript) ==
    /\ IF label = "FATAL"
       THEN Return(name, <<s, transcript>>, "FATAL", <<>>)
       ELSE IF Holds(which)
            THEN Return(name, <<s, transcript>>, "ok",
                        <<deriveSecret(secret_[1].secret, label, transcript)>>)
            ELSE Return(name, <<s, transcript>>, GetFailure, <<>>)
    /\ UNCHANGED <<secret_, appTrafficSecret_, cleared,
                   clientUpdates, serverUpdates>>

getSecret_EarlySecrets(s, transcript) ==
    /\ Running
    /\ PhaseSecret("getSecret_EarlySecrets", "EarlySecret",
                   EarlyLabel(s), s, transcript)

getSecret_HandshakeSecrets(s, transcript) ==
    /\ Running
    /\ PhaseSecret("getSecret_HandshakeSecrets", "HandshakeSecret",
                   HandshakeLabel(s), s, transcript)

getSecret_MasterSecrets(s, transcript) ==
    /\ Running
    /\ PhaseSecret("getSecret_MasterSecrets", "MasterSecret",
                   MasterLabel(s), s, transcript)

getSecret_AppTrafficSecrets(s) ==
    /\ Running
    /\ IF appTrafficSecret_ = <<>>
       THEN Return("getSecret_AppTrafficSecrets", <<s>>,
                   "OptionalEmptyException", <<>>)
       ELSE CASE s = "ClientAppTraffic" ->
                   Return("getSecret_AppTrafficSecrets", <<s>>, "ok",
                          <<appTrafficSecret_[1].client>>)
              [] s = "ServerAppTraffic" ->
                   Return("getSecret_AppTrafficSecrets", <<s>>, "ok",
                          <<appTrafficSecret_[1].server>>)
              [] OTHER ->
                   Return("getSecret_AppTrafficSecrets", <<s>>, "FATAL", <<>>)
    /\ UNCHANGED <<secret_, appTrafficSecret_, cleared,
                   clientUpdates, serverUpdates>>

\* ----------------------------------------------- getTrafficKey and others
TrafficSecrets == {zeros, Bytes(<<5>>)}
KeyLengths == {1, 2}
IvLengths == {1}
TicketNonces == {Bytes(<<>>), Bytes(<<3>>)}

TrafficKey(key, iv) == [key |-> key, iv |-> iv]

\* getTrafficKey that expands the stored client traffic secret when there
\* is one
getTrafficKey_storedSecret(trafficSecret, keyLength, ivLength) ==
    /\ Running
    /\ LET secret == IF appTrafficSecret_ = <<>> THEN trafficSecret
                     ELSE appTrafficSecret_[1].client
       IN Return("getTrafficKey", <<trafficSecret, keyLength, ivLength>>,
                 "ok",
                 <<TrafficKey(
                     expandLabel(secret, kTrafficKey, emptyContext,
                                 keyLength),
                     expandLabel(secret, kTrafficIv, emptyContext,
                                 ivLength))>>)
    /\ UNCHANGED <<secret_, appTrafficSecret_, cleared,
                   clientUpdates, serverUpdates>>

getTrafficKey(trafficSecret, keyLength, ivLength) ==
    /\ Running
    /\ Return("getTrafficKey", <<trafficSecret, keyLength, ivLength>>, "ok",
              <<TrafficKey(
                  expandLabel(trafficSecret, kTrafficKey, emptyContext,
                              keyLength),
                  expandLabel(trafficSecret, kTrafficIv, emptyContext,
                              ivLength))>>)
    /\ UNCHANGED <<secret_, appTrafficSecret_, cleared,
                   clientUpdates, serverUpdates>>

getResumptionSecret(resumptionMasterSecret, ticketNonce) ==
    /\ Running
    /\ Return("getResumptionSecret",
              <<resumptionMasterSecret, ticketNonce>>, "ok",
              <<expandLabel(resumptionMasterSecret, kResumption, ticketNonce,
                            hashLength)>>)
    /\ UNCHANGED <<secret_, appTrafficSecret_, cleared,
                   clientUpdates, serverUpdates>>

Next ==
    \/ \E psk \in PskValues : deriveEarlySecret(psk)
    \/ deriveHandshakeSecret
    \/ \E ecdhe \in EcdheValues : deriveHandshakeSecret_ecdhe(ecdhe)
    \/ deriveMasterSecret
    \/ \E transcript \in Transcripts : deriveAppTrafficSecrets(transcript)
    \/ clearMasterSecret
    \/ clientKeyUpdate
    \/ serverKeyUpdate
    \/ \E s \in EarlySecrets, transcript \in Transcripts :
         getSecret_EarlySecrets(s, transcript)
    \/ \E s \in HandshakeSecrets, transcript \in Transcripts :
         getSecret_HandshakeSecrets(s, transcript)
    \/ \E s \in MasterSecrets, transcript \in Transcripts :
         getSecret_MasterSecrets(s, transcript)
    \/ \E s \in AppTrafficSecrets : getSecret_AppTrafficSecrets(s)
    \/ \E trafficSecret \in TrafficSecrets, keyLength \in KeyLengths,
          ivLength \in IvLengths :
         getTrafficKey(trafficSecret, keyLength, ivLength)
    \/ \E resumptionMasterSecret \in TrafficSecrets,
          ticketNonce \in TicketNonces :
         getResumptionSecret(resumptionMasterSecret, ticketNonce)

Spec == Init /\ [][Next]_vars

\* ------------------------------------------- a long-lived connection
\* 2^32 - 2
WrapStart == [hi |-> W16 - 1, lo |-> W16 - 2]

\* the n-fold key update of a traffic secret, for an n too large to expand
expandLabelTimes(secret, n) ==
    <<"expandLabel^n", secret, kTrafficKeyUpdate, emptyContext, hashLength, n>>

\* the state after deriveHandshakeSecret(zeros), deriveMasterSecret,
\* deriveAppTrafficSecrets and 2^32 - 2 key updates in each direction
InitWrap ==
    LET early == hkdfExtract(zeros, zeros)
        handshake == hkdfExtract(
            deriveSecret(early, kDerivedSecret, blankHash), zeros)
        master == hkdfExtract(
            deriveSecret(handshake, kDerivedSecret, blankHash), zeros)
        transcript == Bytes(<<1>>)
    IN /\ secret_ = <<MasterSecret(master)>>
       /\ appTrafficSecret_ =
            <<[client |-> expandLabelTimes(
                   deriveSecret(master, kClientAppTraffic, transcript),
                   WrapStart),
               clientGeneration |-> WrapStart,
               server |-> expandLabelTimes(
                   deriveSecret(master, kServerAppTraffic, transcript),
                   WrapStart),
               serverGeneration |-> WrapStart]>>
       /\ cleared = FALSE
       /\ op = "serverKeyUpdate"
       /\ args = <<>>
       /\ outcome = "ok"
       /\ retval = <<WrapStart>>
       /\ clientUpdates = WrapStart
       /\ serverUpdates = WrapStart

SpecWrap == InitWrap /\ [][Next]_vars

\* ================================================================ claims
\* the alternative the chain slot holds, "none" for the empty slot
Which == IF secret_ = <<>> THEN "none" ELSE secret_[1].which

\* the phase of the data model: the empty slot is Uninitialized until a
\* clearMasterSecret has succeeded, and Cleared from then on
Phase ==
    IF secret_ # <<>> THEN secret_[1].which
    ELSE IF cleared THEN "Cleared" ELSE "Uninitialized"

Rank(p) ==
    CASE p = "Uninitialized" -> 0
      [] p = "EarlySecret" -> 1
      [] p = "HandshakeSecret" -> 2
      [] p = "MasterSecret" -> 3
      [] p = "Cleared" -> 4

HandshakeFrom(early, ikm) ==
    <<HandshakeSecret(hkdfExtract(
        expandLabel(early, "derived", blankHash, hashLength), ikm))>>

\* ---------------------------------------------------------------- C1
\* C1 as stated: the phase never returns to an earlier one, and once
\* clearMasterSecret has succeeded the chain slot stays empty.
C1_Original == [][Rank(Phase') >= Rank(Phase)]_vars

ForwardSteps ==
    {<<"none", "EarlySecret">>, <<"none", "HandshakeSecret">>,
     <<"EarlySecret", "HandshakeSecret">>,
     <<"HandshakeSecret", "MasterSecret">>, <<"MasterSecret", "none">>}

\* C1, amended: every change of the chain slot is one of the forward steps
\* empty -> EarlySecret, empty/EarlySecret -> HandshakeSecret,
\* HandshakeSecret -> MasterSecret, MasterSecret -> empty; the empty slot
\* left by clearMasterSecret is not terminal: deriveEarlySecret and
\* deriveHandshakeSecret(ecdhe) succeed on it and put a secret back, while
\* deriveHandshakeSecret() and deriveMasterSecret() fail on it.
C1_ForwardExceptRestart ==
    [][/\ secret_' # secret_ => <<Which, Which'>> \in ForwardSteps
       /\ (cleared /\ secret_ = <<>>) =>
            /\ op' \in {"deriveEarlySecret", "deriveHandshakeSecret_ecdhe"}
                 => outcome' = "ok" /\ secret_' # <<>>
            /\ op' \in {"deriveHandshakeSecret", "deriveMasterSecret"}
                 => outcome' # "ok" /\ secret_' = <<>>]_vars

\* the chain has been restarted after a clearMasterSecret
C1_Witness == cleared /\ Which = "EarlySecret"

\* ---------------------------------------------------------------- C2
\* C2 as stated: deriveHandshakeSecret() on the empty slot does not fail and
\* ends in the HandshakeSecret derived from HKDF-Extract(zeros, zeros).
C2_Original ==
    [][(op' = "deriveHandshakeSecret" /\ secret_ = <<>>) =>
         /\ outcome' = "ok"
         /\ secret_' = HandshakeFrom(hkdfExtract(zeros, zeros), zeros)]_vars

\* C2, amended: deriveHandshakeSecret() requires the state EarlySecret and
\* does not bootstrap: on the empty slot it fails on the checked access and
\* the slot stays empty; in EarlySecret it ends in HandshakeSecret.
C2_NoArgNeedsEarlySecret ==
    [][op' = "deriveHandshakeSecret" =>
         /\ secret_ = <<>> =>
              outcome' = "OptionalEmptyException" /\ secret_' = <<>>
         /\ Which = "EarlySecret" =>
              /\ outcome' = "ok"
              /\ secret_' = HandshakeFrom(secret_[1].secret, zeros)]_vars

C2_Witness ==
    /\ op = "deriveHandshakeSecret"
    /\ outcome = "OptionalEmptyException"
    /\ secret_ = <<>>
    /\ ~cleared

\* ---------------------------------------------------------------- C3
clientGeneration == appTrafficSecret_[1].clientGeneration
serverGeneration == appTrafficSecret_[1].serverGeneration

Less32(a, b) == a.hi < b.hi \/ (a.hi = b.hi /\ a.lo < b.lo)

\* 2^32 - 1
Max32 == [hi |-> W16 - 1, lo |-> W16 - 1]

\* C3 as stated: once the pair exists neither generation ever decreases, and
\* a generation changes only by +1 on a key update of its own side.
C3_Original ==
    [][appTrafficSecret_ # <<>> =>
         /\ appTrafficSecret_' # <<>>
         /\ ~Less32(clientGeneration', clientGeneration)
         /\ ~Less32(serverGeneration', serverGeneration)
         /\ clientGeneration' # clientGeneration =>
              op' = "clientKeyUpdate" /\ clientGeneration' = inc32(clientGeneration)
         /\ serverGeneration' # serverGeneration =>
              op' = "serverKeyUpdate" /\ serverGeneration' = inc32(serverGeneration)]_vars

\* C3, amended: the pair starts with both generations 0 and is never
\* removed; a generation changes only by +1 modulo 2^32 on a successful key
\* update of its own side, or back to 0 when deriveAppTrafficSecrets succeeds
\* again and replaces the pair; it decreases only on that replacement or on
\* the wrap from 2^32 - 1 to 0.
C3_MonotonicUntilRederive ==
    [][/\ (appTrafficSecret_ = <<>> /\ appTrafficSecret_' # <<>>) =>
            /\ clientGeneration' = u32(0)
            /\ serverGeneration' = u32(0)
       /\ appTrafficSecret_ # <<>> =>
            /\ appTrafficSecret_' # <<>>
            /\ \/ clientGeneration' = clientGeneration
               \/ /\ op' = "clientKeyUpdate" /\ outcome' = "ok"
                  /\ clientGeneration' = inc32(clientGeneration)
               \/ /\ op' = "deriveAppTrafficSecrets" /\ outcome' = "ok"
                  /\ clientGeneration' = u32(0)
            /\ \/ serverGeneration' = serverGeneration
               \/ /\ op' = "serverKeyUpdate" /\ outcome' = "ok"
                  /\ serverGeneration' = inc32(serverGeneration)
               \/ /\ op' = "deriveAppTrafficSecrets" /\ outcome' = "ok"
                  /\ serverGeneration' = u32(0)
            /\ Less32(clientGeneration', clientGeneration) =>
                 \/ op' = "deriveAppTrafficSecrets"
                 \/ op' = "clientKeyUpdate" /\ clientGeneration = Max32
            /\ Less32(serverGeneration', serverGeneration) =>
                 \/ op' = "deriveAppTrafficSecrets"
                 \/ op' = "serverKeyUpdate" /\ serverGeneration = Max32]_vars

\* both counters have advanced, the client's twice
C3_Witness ==
    /\ appTrafficSecret_ # <<>>
    /\ clientGeneration = u32(2)
    /\ serverGeneration = u32(1)

\* ---------------------------------------------------------------- C4
\* C4: deriveEarlySecret(psk) succeeds exactly on the empty slot, leaving
\* EarlySecret = HKDF-Extract(zeros, psk); on EarlySecret, HandshakeSecret
\* and MasterSecret it throws "secret already set" and the stored secret is
\* kept.
C4_DeriveEarlySecretOnce ==
    [][op' = "deriveEarlySecret" =>
         IF secret_ = <<>>
         THEN /\ outcome' = "ok"
              /\ secret_' = <<EarlySecret(<<"hkdfExtract", zeros, args'[1]>>)>>
         ELSE /\ outcome' = "runtime_error"
              /\ secret_' = secret_]_vars

\* a second deriveEarlySecret, with another psk, was refused
C4_Witness ==
    /\ op = "deriveEarlySecret"
    /\ outcome = "runtime_error"
    /\ Which = "EarlySecret"
    /\ secret_[1].secret # hkdfExtract(zeros, args[1])

\* ---------------------------------------------------------------- C5
\* the label table of the three phases
C5_Label(s) ==
    CASE s = "ExternalPskBinder" -> "ext binder"
      [] s = "ResumptionPskBinder" -> "res binder"
      [] s = "ClientEarlyTraffic" -> "c e traffic"
      [] s = "EarlyExporter" -> "e exp master"
      [] s = "ClientHandshakeTraffic" -> "c hs traffic"
      [] s = "ServerHandshakeTraffic" -> "s hs traffic"
      [] s = "ExporterMaster" -> "exp master"
      [] s = "ResumptionMaster" -> "res master"

C5_PhaseOf(o) ==
    CASE o = "getSecret_EarlySecrets" -> "EarlySecret"
      [] o = "getSecret_HandshakeSecrets" -> "HandshakeSecret"
      [] o = "getSecret_MasterSecrets" -> "MasterSecret"

\* C5: a phase-scoped getSecret with a selector of its phase returns a value
\* exactly while the chain slot holds that phase's secret, and the value is
\* deriveSecret(that secret, label of the selector, transcript); in every
\* other state, the empty slot before any derivation and after
\* clearMasterSecret included, it fails and returns nothing; it never
\* changes either slot.
C5_GetSecretGated ==
    [][op' \in {"getSecret_EarlySecrets", "getSecret_HandshakeSecrets",
                "getSecret_MasterSecrets"} =>
         /\ UNCHANGED <<secret_, appTrafficSecret_>>
         /\ outcome' = "ok" =>
              /\ Which = C5_PhaseOf(op')
              /\ retval' = <<expandLabel(secret_[1].secret,
                                         C5_Label(args'[1]), args'[2],
                                         hashLength)>>
         /\ Which # C5_PhaseOf(op') =>
              outcome' # "ok" /\ retval' = <<>>
         /\ (Which = C5_PhaseOf(op') /\ args'[1] # "Unknown") =>
              outcome' = "ok"]_vars

\* a master-phase secret was asked for after clearMasterSecret and refused
C5_Witness ==
    /\ op = "getSecret_MasterSecrets"
    /\ args[1] = "ResumptionMaster"
    /\ outcome = "OptionalEmptyException"
    /\ cleared
    /\ secret_ = <<>>

\* ---------------------------------------------------------------- C6
\* C6: deriveHandshakeSecret(ecdhe) succeeds exactly on the empty slot and
\* on EarlySecret, deriving from HKDF-Extract(zeros, zeros) on the empty
\* slot, and leaves HandshakeSecret; on HandshakeSecret and MasterSecret the
\* checked variant access throws and the slot is kept.
C6_HandshakeEcdheGuard ==
    [][op' = "deriveHandshakeSecret_ecdhe" =>
         IF Which \in {"none", "EarlySecret"}
         THEN /\ outcome' = "ok"
              /\ secret_' = HandshakeFrom(
                    IF secret_ = <<>> THEN <<"hkdfExtract", zeros, zeros>>
                    ELSE secret_[1].secret,
                    args'[1])
         ELSE /\ outcome' = "bad_get"
              /\ secret_' = secret_]_vars

\* deriveHandshakeSecret(ecdhe) was refused on a MasterSecret
C6_Witness ==
    /\ op = "deriveHandshakeSecret_ecdhe"
    /\ outcome = "bad_get"
    /\ Which = "MasterSecret"

\* ---------------------------------------------------------------- C7
\* C7: deriveMasterSecret() succeeds exactly on HandshakeSecret and leaves
\* MasterSecret; on the empty slot (before any derivation and after
\* clearMasterSecret), on EarlySecret and on MasterSecret it fails and the
\* slot is kept, so no MasterSecret is produced.
C7_MasterNeedsHandshake ==
    [][op' = "deriveMasterSecret" =>
         IF Which = "HandshakeSecret"
         THEN outcome' = "ok" /\ Which' = "MasterSecret"
         ELSE outcome' \in {"bad_get", "OptionalEmptyException"}
              /\ secret_' = secret_]_vars

\* deriveMasterSecret was refused on an EarlySecret
C7_Witness ==
    /\ op = "deriveMasterSecret"
    /\ outcome = "bad_get"
    /\ Which = "EarlySecret"

\* ---------------------------------------------------------------- C8
\* C8: clearMasterSecret() succeeds exactly on MasterSecret and leaves the
\* chain slot empty; on the empty slot, EarlySecret and HandshakeSecret it
\* fails and the stored secret is kept.
C8_ClearNeedsMaster ==
    [][op' = "clearMasterSecret" =>
         IF Which = "MasterSecret"
         THEN outcome' = "ok" /\ secret_' = <<>>
         ELSE outcome' \in {"bad_get", "OptionalEmptyException"}
              /\ secret_' = secret_]_vars

\* clearMasterSecret was refused on a HandshakeSecret, which is kept
C8_Witness ==
    /\ op = "clearMasterSecret"
    /\ outcome = "bad_get"
    /\ Which = "HandshakeSecret"

\* ---------------------------------------------------------------- C9
\* C9: deriveAppTrafficSecrets(transcript) succeeds exactly on MasterSecret
\* (so not on the slot emptied by clearMasterSecret); it then stores
\* client = deriveSecret(master, "c ap traffic", transcript) and
\* server = deriveSecret(master, "s ap traffic", transcript), which differ
\* from each other and from the master secret, with both generations 0,
\* and leaves the chain slot as it was; when it fails the pair is kept.
C9_AppTrafficSecrets ==
    [][op' = "deriveAppTrafficSecrets" =>
         IF Which = "MasterSecret"
         THEN /\ outcome' = "ok"
              /\ secret_' = secret_
              /\ appTrafficSecret_' =
                    <<[client |-> expandLabel(secret_[1].secret,
                          "c ap traffic", args'[1], hashLength),
                       clientGeneration |-> u32(0),
                       server |-> expandLabel(secret_[1].secret,
                          "s ap traffic", args'[1], hashLength),
                       serverGeneration |-> u32(0)]>>
              /\ appTrafficSecret_'[1].client # appTrafficSecret_'[1].server
              /\ appTrafficSecret_'[1].client # secret_[1].secret
              /\ appTrafficSecret_'[1].server # secret_[1].secret
         ELSE /\ outcome' \in {"bad_get", "OptionalEmptyException"}
              /\ appTrafficSecret_' = appTrafficSecret_
              /\ secret_' = secret_]_vars

\* deriveAppTrafficSecrets succeeded and the chain still holds the master
\* secret it derived from
C9_Witness ==
    /\ op = "deriveAppTrafficSecrets"
    /\ outcome = "ok"
    /\ Which = "MasterSecret"
    /\ appTrafficSecret_ # <<>>
    /\ appTrafficSecret_[1].client =
         deriveSecret(secret_[1].secret, kClientAppTraffic, args[1])

\* ---------------------------------------------------------------- C10
\* C10: the pair is absent exactly until deriveAppTrafficSecrets first
\* succeeds; while it is absent clientKeyUpdate, serverKeyUpdate and
\* getSecret(AppTrafficSecrets) fail in every chain state, return nothing
\* and leave the pair absent.
C10_NoPairNoUpdate ==
    [][/\ (appTrafficSecret_ = <<>> /\ appTrafficSecret_' # <<>>) =>
            op' = "deriveAppTrafficSecrets" /\ outcome' = "ok"
       /\ appTrafficSecret_ # <<>> => appTrafficSecret_' # <<>>
       /\ (/\ appTrafficSecret_ = <<>>
           /\ op' \in {"clientKeyUpdate", "serverKeyUpdate",
                        "getSecret_AppTrafficSecrets"}) =>
            /\ outcome' = "OptionalEmptyException"
            /\ retval' = <<>>
            /\ appTrafficSecret_' = <<>>]_vars

\* a key update was refused while the chain holds a MasterSecret
C10_Witness ==
    /\ op = "clientKeyUpdate"
    /\ outcome = "OptionalEmptyException"
    /\ appTrafficSecret_ = <<>>
    /\ Which = "MasterSecret"

\* ---------------------------------------------------------------- C11
\* a number of calls modulo 2^32, as a uint32_t
Mod32(n) == [hi |-> n.hi % W16, lo |-> n.lo]

\* 2^32, as a number of calls
TwoTo32 == [hi |-> W16, lo |-> 0]

\* C11 as stated: for every n the n-th clientKeyUpdate since
\* deriveAppTrafficSecrets returns n, whatever serverKeyUpdate calls are
\* interleaved, and likewise the n-th serverKeyUpdate.
C11_Original ==
    /\ (op = "clientKeyUpdate" /\ outcome = "ok") => retval = <<clientUpdates>>
    /\ (op = "serverKeyUpdate" /\ outcome = "ok") => retval = <<serverUpdates>>

\* C11, amended: the n-th clientKeyUpdate since deriveAppTrafficSecrets
\* returns n for every n < 2^32, whatever serverKeyUpdate calls are
\* interleaved; the return type is uint32_t, so from the 2^32-th call on it
\* returns n modulo 2^32 (the 2^32-th call returns 0). Likewise for
\* serverKeyUpdate.
C11_ReturnsCallNumberMod32 ==
    /\ (op = "clientKeyUpdate" /\ outcome = "ok") =>
         IF clientUpdates.hi < W16
         THEN retval = <<clientUpdates>>
         ELSE retval = <<Mod32(clientUpdates)>>
    /\ (op = "serverKeyUpdate" /\ outcome = "ok") =>
         IF serverUpdates.hi < W16
         THEN retval = <<serverUpdates>>
         ELSE retval = <<Mod32(serverUpdates)>>

\* the 2^32-th clientKeyUpdate, after an interleaved serverKeyUpdate,
\* returned 0
C11_Witness ==
    /\ op = "clientKeyUpdate"
    /\ outcome = "ok"
    /\ clientUpdates = TwoTo32
    /\ serverUpdates = [hi |-> W16 - 1, lo |-> W16 - 1]
    /\ retval = <<u32(0)>>

\* ---------------------------------------------------------------- C12
\* C12: serverKeyUpdate leaves the stored client secret and
\* client_generation unchanged, clientKeyUpdate leaves the stored server
\* secret and server_generation unchanged; after deriveAppTrafficSecrets
\* and one serverKeyUpdate, client_generation is 0 and server_generation 1.
C12_DirectionsIndependent ==
    [][/\ (op' = "serverKeyUpdate" /\ appTrafficSecret_ # <<>>) =>
            /\ appTrafficSecret_'[1].client = appTrafficSecret_[1].client
            /\ clientGeneration' = clientGeneration
       /\ (op' = "clientKeyUpdate" /\ appTrafficSecret_ # <<>>) =>
            /\ appTrafficSecret_'[1].server = appTrafficSecret_[1].server
            /\ serverGeneration' = serverGeneration
       /\ (/\ op' = "serverKeyUpdate" /\ outcome' = "ok"
           /\ clientUpdates' = count0
           /\ serverUpdates' = countInc(count0)) =>
            /\ clientGeneration' = u32(0)
            /\ serverGeneration' = u32(1)]_vars

\* one serverKeyUpdate after deriveAppTrafficSecrets: the client side is
\* as derived
C12_Witness ==
    /\ op = "serverKeyUpdate"
    /\ outcome = "ok"
    /\ clientGeneration = u32(0)
    /\ serverGeneration = u32(1)
    /\ appTrafficSecret_[1].client[3] = "c ap traffic"
    /\ appTrafficSecret_[1].server[3] = "traffic upd"

\* ---------------------------------------------------------------- C13
RECURSIVE Peel(_, _)
\* the secret k key updates before s
Peel(s, k) == IF k = 0 THEN s ELSE Peel(s[2], k - 1)

RECURSIVE Ratchet(_, _)
\* the k-fold expansion of s
Ratchet(s, k) ==
    IF k = 0 THEN s
    ELSE <<"expandLabel", Ratchet(s, k - 1), "traffic upd", Bytes(<<>>),
           hashLength>>

\* secret is the k-fold expansion of a secret derived with the label, and
\* differs from the secret of every earlier generation
RatchetOf(secret, label, k) ==
    LET base == Peel(secret, k)
    IN /\ secret = Ratchet(base, k)
       /\ base[1] = "expandLabel"
       /\ base[3] = label
       /\ \A i \in 0..k : \A j \in 0..k :
            i # j => Ratchet(base, i) # Ratchet(base, j)

\* C13: each successful clientKeyUpdate replaces the stored client secret s
\* by expandLabel(s, "traffic upd", empty context, hashLength), so after
\* deriveAppTrafficSecrets and k client key updates the stored secret, which
\* getSecret(ClientAppTraffic) returns, is the k-fold expansion of the
\* derived client secret and differs from the secret of every earlier
\* generation; getSecret(AppTrafficSecrets) changes neither slot. Likewise
\* for the server side.
C13_KeyUpdateRatchet ==
    [][/\ (op' = "clientKeyUpdate" /\ outcome' = "ok") =>
            appTrafficSecret_'[1].client =
              <<"expandLabel", appTrafficSecret_[1].client, "traffic upd",
                Bytes(<<>>), hashLength>>
       /\ (op' = "serverKeyUpdate" /\ outcome' = "ok") =>
            appTrafficSecret_'[1].server =
              <<"expandLabel", appTrafficSecret_[1].server, "traffic upd",
                Bytes(<<>>), hashLength>>
       /\ appTrafficSecret_' # <<>> =>
            /\ RatchetOf(appTrafficSecret_'[1].client, "c ap traffic",
                         clientUpdates'.lo)
            /\ RatchetOf(appTrafficSecret_'[1].server, "s ap traffic",
                         serverUpdates'.lo)
       /\ op' = "getSecret_AppTrafficSecrets" =>
            /\ UNCHANGED <<secret_, appTrafficSecret_>>
            /\ (appTrafficSecret_ # <<>> /\ args'[1] = "ClientAppTraffic") =>
                 outcome' = "ok" /\ retval' = <<appTrafficSecret_[1].client>>
            /\ (appTrafficSecret_ # <<>> /\ args'[1] = "ServerAppTraffic") =>
                 outcome' = "ok" /\ retval' = <<appTrafficSecret_[1].server>>
      ]_vars

\* getSecret(ClientAppTraffic) returned the secret of generation 2
C13_Witness ==
    /\ op = "getSecret_AppTrafficSecrets"
    /\ args = <<"ClientAppTraffic">>
    /\ outcome = "ok"
    /\ clientUpdates = [hi |-> 0, lo |-> 2]
    /\ retval = <<Ratchet(Peel(appTrafficSecret_[1].client, 2), 2)>>

\* ---------------------------------------------------------------- C14
\* deriveSecret(secret, "derived", blankHash)
C14_Derived(secret) ==
    <<"expandLabel", secret, "derived", blankHash, hashLength>>

\* the early secrets: HKDF-Extract(zeros, psk) for a psk or for zeros
C14_Early == {<<"hkdfExtract", zeros, psk>> : psk \in PskValues \cup {zeros}}

C14_Handshake ==
    {<<"hkdfExtract", C14_Derived(e), ikm>> :
        e \in C14_Early, ikm \in EcdheValues \cup {zeros}}

C14_Master == {<<"hkdfExtract", C14_Derived(h), zeros>> : h \in C14_Handshake}

\* C14: every HandshakeSecret is HKDF-Extract(deriveSecret(E, "derived",
\* blankHash), ikm) for the early secret E = HKDF-Extract(zeros, psk or
\* zeros) that was live immediately before (or was synthesized by the same
\* call on the empty slot), and every MasterSecret is
\* HKDF-Extract(deriveSecret(H, "derived", blankHash), zeros) for the
\* handshake secret H that was live immediately before; no call leaves a
\* handshake or master secret of another shape.
C14_DerivedStep ==
    [][/\ Which' = "EarlySecret" => secret_'[1].secret \in C14_Early
       /\ Which' = "HandshakeSecret" => secret_'[1].secret \in C14_Handshake
       /\ Which' = "MasterSecret" => secret_'[1].secret \in C14_Master
       /\ (Which' = "HandshakeSecret" /\ secret_' # secret_) =>
            /\ Which \in {"none", "EarlySecret"}
            /\ \E ikm \in EcdheValues \cup {zeros} :
                 secret_'[1].secret =
                   <<"hkdfExtract",
                     C14_Derived(IF secret_ = <<>>
                                 THEN <<"hkdfExtract", zeros, zeros>>
                                 ELSE secret_[1].secret),
                     ikm>>
       /\ (Which' = "MasterSecret" /\ secret_' # secret_) =>
            /\ Which = "HandshakeSecret"
            /\ secret_'[1].secret =
                 <<"hkdfExtract", C14_Derived(secret_[1].secret), zeros>>
      ]_vars

\* a master secret at the end of the chain from a psk and an ecdhe secret
C14_Witness ==
    /\ op = "deriveMasterSecret"
    /\ outcome = "ok"
    /\ secret_ = <<MasterSecret(
         <<"hkdfExtract",
           C14_Derived(<<"hkdfExtract",
                         C14_Derived(<<"hkdfExtract", zeros, Bytes(<<7>>)>>),
                         Bytes(<<9>>)>>),
           zeros>>)>>

\* ---------------------------------------------------------------- C15
\* C15: getTrafficKey and getResumptionSecret succeed in every chain state,
\* with or without an application traffic pair, leave both slots unchanged,
\* and return a value that is a function of their arguments alone:
\* {key: expandLabel(trafficSecret, "key", empty, keyLength),
\*  iv: expandLabel(trafficSecret, "iv", empty, ivLength)} and
\* expandLabel(resumptionMasterSecret, "resumption", ticketNonce, hashLength).
C15_PureMaterialization ==
    [][/\ op' = "getTrafficKey" =>
            /\ outcome' = "ok"
            /\ UNCHANGED <<secret_, appTrafficSecret_>>
            /\ retval' =
                 <<[key |-> <<"expandLabel", args'[1], "key", Bytes(<<>>),
                             args'[2]>>,
                    iv |-> <<"expandLabel", args'[1], "iv", Bytes(<<>>),
                            args'[3]>>]>>
       /\ op' = "getResumptionSecret" =>
            /\ outcome' = "ok"
            /\ UNCHANGED <<secret_, appTrafficSecret_>>
            /\ retval' = <<<<"expandLabel", args'[1], "resumption", args'[2],
                             hashLength>>>>
      ]_vars

\* getTrafficKey was called after clearMasterSecret, with a pair stored
C15_Witness ==
    /\ op = "getTrafficKey"
    /\ outcome = "ok"
    /\ cleared
    /\ secret_ = <<>>
    /\ appTrafficSecret_ # <<>>
    /\ clientGeneration = u32(1)

\* ---------------------------------------------------------------- C16
\* deriveHandshakeSecret() called now succeeds (ok) or fails (~ok) and
\* leaves the chain slot s
C16_NoArgEnds(ok, s) ==
    ENABLED (/\ deriveHandshakeSecret
             /\ (outcome' = "ok") = ok
             /\ secret_' = s)

\* the same for deriveHandshakeSecret(zeros[hashLen])
C16_ZerosEnds(ok, s) ==
    ENABLED (/\ deriveHandshakeSecret_ecdhe(zeros)
             /\ (outcome' = "ok") = ok
             /\ secret_' = s)

\* the chain slots a deriveHandshakeSecret call can leave from this state
C16_Slots ==
    {<<>>, secret_}
    \cup {HandshakeFrom(e, ikm) :
            e \in {<<"hkdfExtract", zeros, zeros>>}
                   \cup {secret_[i].secret : i \in 1..Len(secret_)},
            ikm \in {zeros, emptyContext}}

C16_SameOutcome ==
    /\ \E ok \in BOOLEAN, s \in C16_Slots : C16_NoArgEnds(ok, s)
    /\ \E ok \in BOOLEAN, s \in C16_Slots : C16_ZerosEnds(ok, s)
    /\ \A ok \in BOOLEAN, s \in C16_Slots :
         C16_NoArgEnds(ok, s) <=> C16_ZerosEnds(ok, s)

\* C16 as stated: from every chain state deriveHandshakeSecret() and
\* deriveHandshakeSecret(zeros[hashLen]) both succeed or both fail, and
\* leave the same HandshakeSecret when they succeed.
C16_Original == Running => C16_SameOutcome

\* C16, amended: from every chain state that holds a secret the two
\* overloads have the same outcome: on EarlySecret both succeed and leave
\* the same HandshakeSecret, on HandshakeSecret and MasterSecret both fail
\* and keep the slot. On the empty slot they differ: deriveHandshakeSecret()
\* fails and leaves it empty, deriveHandshakeSecret(zeros[hashLen])
\* succeeds from HKDF-Extract(zeros, zeros).
C16_SameOutcomeUnlessEmpty ==
    Running =>
      IF secret_ # <<>>
      THEN /\ C16_SameOutcome
           /\ C16_NoArgEnds(Which = "EarlySecret",
                            IF Which = "EarlySecret"
                            THEN HandshakeFrom(secret_[1].secret, zeros)
                            ELSE secret_)
      ELSE /\ C16_NoArgEnds(FALSE, <<>>)
           /\ C16_ZerosEnds(TRUE,
                            HandshakeFrom(<<"hkdfExtract", zeros, zeros>>,
                                          zeros))

\* deriveHandshakeSecret() has derived from the early secret of a psk what
\* deriveHandshakeSecret(zeros) derives from it
C16_Witness ==
    /\ op = "deriveHandshakeSecret"
    /\ outcome = "ok"
    /\ secret_ = HandshakeFrom(<<"hkdfExtract", zeros, Bytes(<<7>>)>>, zeros)
    /\ appTrafficSecret_ # <<>>

\* ---------------------------------------------------------------- C17
C17_ChainOps ==
    {"deriveEarlySecret", "deriveHandshakeSecret",
     "deriveHandshakeSecret_ecdhe", "deriveMasterSecret", "clearMasterSecret"}

\* C17: deriveEarlySecret, both deriveHandshakeSecret overloads,
\* deriveMasterSecret and clearMasterSecret leave the application traffic
\* pair unchanged; clientKeyUpdate, serverKeyUpdate and
\* deriveAppTrafficSecrets leave the chain slot unchanged; once the pair is
\* present it stays present, and clientKeyUpdate, serverKeyUpdate and
\* getSecret(AppTrafficSecrets) with a selector of the enum succeed in every
\* later state, after clearMasterSecret included.
C17_DisjointSlots ==
    [][/\ op' \in C17_ChainOps => appTrafficSecret_' = appTrafficSecret_
       /\ op' \in {"clientKeyUpdate", "serverKeyUpdate",
                    "deriveAppTrafficSecrets"} => secret_' = secret_
       /\ appTrafficSecret_ # <<>> =>
            /\ appTrafficSecret_' # <<>>
            /\ op' \in {"clientKeyUpdate", "serverKeyUpdate"} =>
                 outcome' = "ok"
            /\ (op' = "getSecret_AppTrafficSecrets"
                  /\ args'[1] # "Unknown") => outcome' = "ok"
      ]_vars

\* a key update succeeded on the slot emptied by clearMasterSecret
C17_Witness ==
    /\ op = "serverKeyUpdate"
    /\ outcome = "ok"
    /\ cleared
    /\ secret_ = <<>>
    /\ serverGeneration = u32(2)

\* ---------------------------------------------------------------- C18
\* C18: a call that fails (throws, or aborts on an unknown selector) leaves
\* the chain slot and the application traffic slot exactly as they were.
C18_FailureIsAtomic ==
    [][outcome' # "ok" =>
         /\ secret_' = secret_
         /\ appTrafficSecret_' = appTrafficSecret_]_vars

\* deriveHandshakeSecret(ecdhe) failed on a HandshakeSecret while a pair
\* of generation 1 is stored
C18_Witness ==
    /\ op = "deriveHandshakeSecret_ecdhe"
    /\ outcome = "bad_get"
    /\ Which = "HandshakeSecret"
    /\ appTrafficSecret_ # <<>>
    /\ clientGeneration = u32(1)

\* ---------------------------------------------------------------- C19
\* C19: while the pair exists, client_generation is the number of successful
\* clientKeyUpdate calls since the most recent successful
\* deriveAppTrafficSecrets modulo 2^32, server_generation the number of
\* serverKeyUpdate calls modulo 2^32, and a key update returns its counter
\* after the increment.
C19_GenerationIsCallCountMod32 ==
    appTrafficSecret_ # <<>> =>
      /\ clientGeneration = Mod32(clientUpdates)
      /\ serverGeneration = Mod32(serverUpdates)
      /\ (op = "clientKeyUpdate" /\ outcome = "ok") =>
           retval = <<clientGeneration>>
      /\ (op = "serverKeyUpdate" /\ outcome = "ok") =>
           retval = <<serverGeneration>>

\* the server counter has wrapped: 2^32 serverKeyUpdate calls, generation 0
C19_Witness ==
    /\ op = "serverKeyUpdate"
    /\ outcome = "ok"
    /\ serverUpdates = TwoTo32
    /\ serverGeneration = u32(0)

====
